---- MODULE Spec2Model ----
(***************************************************************************)
(* sieve: remove every line containing one of a list of substrings from    *)
(* all .gz files under a root directory (src/src/main.rs).                 *)
(*                                                                         *)
(* A byte is a one-character string.  A file on disk is a sequence of disk *)
(* bytes; a gzip member is modelled as a header byte, the payload bytes    *)
(* and a trailer byte, so that a file can be "not gzip" (no header) or     *)
(* "truncated" (no trailer).                                               *)
(***************************************************************************)
EXTENDS Naturals, Sequences, FiniteSets

\* ------------------------------------------------------------------ bounds

\* Longest decompressed content of the file of the single-file corpus.
MaxLen == 3
\* Largest worker pool.
MaxThreads == 2
\* I/O failures the environment injects in one behaviour.
MaxFaults == 1
\* Invocations of the program on the same tree, one after the other.
MaxRuns == 2

\* ------------------------------------------------------------------- bytes

LF == "\n"
CR == "\r"
\* A byte that is not valid UTF-8 on its own (0x9F, as in the binary test).
BAD == "0x9F"
\* gzip framing: member header (magic, flags) and trailer (CRC32, ISIZE).
HDR == "GZ-HEADER"
TRL == "GZ-TRAILER"

Byte == {"a", "*", CR, LF, BAD}

\* All byte sequences of length at most n.
SeqsUpTo(S, n) == UNION {[1..k -> S] : k \in 0..n}

\* A scratch file: absent, or present with its bytes.
NoFile == [exists |-> FALSE, bytes |-> <<>>]
File(b) == [exists |-> TRUE, bytes |-> b]

\* ------------------------------------------------------------ gzip streams

\* flate2::write::GzEncoder, once finished: header, payload, trailer.
GzEncode(data) == <<HDR>> \o data \o <<TRL>>

\* Index of the first occurrence of b in s at or after i, 0 if none.
RECURSIVE IndexFrom(_, _, _)
IndexFrom(s, b, i) ==
    IF i > Len(s) THEN 0
    ELSE IF s[i] = b THEN i
    ELSE IndexFrom(s, b, i + 1)

\* flate2::read::GzDecoder over a file: the payload it yields and whether
\* the stream ended cleanly.  Without a header nothing is yielded and the
\* first read fails; without a trailer the payload is yielded and the read
\* after it fails (unexpected end of file).  Bytes after the first member
\* are not read.
GzDecode(bytes) ==
    IF Len(bytes) = 0 \/ bytes[1] # HDR
    THEN [data |-> <<>>, clean |-> FALSE]
    ELSE LET t == IndexFrom(bytes, TRL, 2)
         IN  IF t = 0
             THEN [data |-> SubSeq(bytes, 2, Len(bytes)), clean |-> FALSE]
             ELSE [data |-> SubSeq(bytes, 2, t - 1), clean |-> TRUE]

\* ------------------------------------------------------------------- lines

\* A reader that takes any bytes for text (String::from_utf8_lossy).
IsUtf8Lossy(s) == TRUE

\* Whether lines() can turn the bytes of a line into a String.
IsUtf8(s) == \A i \in 1..Len(s) : s[i] # BAD

OkLine(l) == [ok |-> TRUE, line |-> l]
ErrLine == [ok |-> FALSE, line |-> <<>>]

\* BufRead::lines() over the decoder: the items the loop of
\* remove_lines_with_patterns sees, up to and including the first Err (the
\* loop returns there).  A line ends at LF; the LF is removed, and a CR just
\* before that LF too.  A last line without LF is yielded as it is.  A line
\* that is not UTF-8 is an Err, and so is the read that hits the decoder's
\* error.
RECURSIVE LineItems(_, _)
LineItems(data, clean) ==
    LET k == IndexFrom(data, LF, 1)
    IN  IF k = 0
        THEN IF ~clean THEN <<ErrLine>>
             ELSE IF data = <<>> THEN <<>>
             ELSE IF IsUtf8(data) THEN <<OkLine(data)>>
             ELSE <<ErrLine>>
        ELSE LET raw  == SubSeq(data, 1, k - 1)
                 line == IF Len(raw) > 0 /\ raw[Len(raw)] = CR
                         THEN SubSeq(raw, 1, Len(raw) - 1)
                         ELSE raw
                 rest == SubSeq(data, k + 1, Len(data))
             IN  IF IsUtf8(raw)
                 THEN <<OkLine(line)>> \o LineItems(rest, clean)
                 ELSE <<ErrLine>>

\* reader.lines() of a file on disk (main.rs 202-203, 212).
ReaderLines(bytes) ==
    LET d == GzDecode(bytes) IN LineItems(d.data, d.clean)

\* ----------------------------------------------------------- line filter

\* Whether pat occurs in line at position i.
RECURSIVE MatchesAt(_, _, _, _)
MatchesAt(line, pat, i, j) ==
    IF j > Len(pat) THEN TRUE
    ELSE IF i + j - 1 > Len(line) THEN FALSE
    ELSE IF line[i + j - 1] # pat[j] THEN FALSE
    ELSE MatchesAt(line, pat, i, j + 1)

\* str::contains(pat): a left-to-right search for the literal pat.
RECURSIVE ContainsFrom(_, _, _)
ContainsFrom(line, pat, i) ==
    IF i + Len(pat) - 1 > Len(line) THEN FALSE
    ELSE IF MatchesAt(line, pat, i, 1) THEN TRUE
    ELSE ContainsFrom(line, pat, i + 1)

\* A search that looks at the start of the line only.
ContainsAtStart(line, pat) == MatchesAt(line, pat, 1, 1)

Contains(line, pat) == ContainsFrom(line, pat, 1)

\* patterns.iter().any(|pat| line.contains(pat)): in order, stopping at the
\* first match.
RECURSIVE AnyPattern(_, _)
AnyPattern(pats, line) ==
    IF pats = <<>> THEN FALSE
    ELSE IF Contains(line, Head(pats)) THEN TRUE
    ELSE AnyPattern(Tail(pats), line)

\* ------------------------------------------------------------------- state

VARIABLES
    disk,                \* path -> bytes of each regular file of the tree
    disk0,               \* disk as it was when the run started (history)
    patterns,            \* args.patterns
    thread_count,        \* args.threads, or the number of CPUs without it
    pool,                \* the workers of the rayon pool, 0 before it is built
    tree,                \* whether the root is there, and what of the tree
                         \* cannot be read
    main_pc,             \* where main() is
    gz_files,            \* the (path, size) list gather_gz_files returned
    total_size,          \* the sum gather_gz_files returned
    progress,            \* the position of the progress bar
    total_lines_read,    \* AtomicU64
    total_lines_removed, \* AtomicU64
    task,                \* per element of gz_files: its closure's state
    faults,              \* I/O failures injected so far
    prev                 \* the outcomes of the earlier invocations (history)

vars == <<disk, disk0, patterns, thread_count, pool, tree, main_pc, gz_files,
          total_size, progress, total_lines_read, total_lines_removed, task,
          faults, prev>>

\* The directories of the tree; one has the extension of a target.
Dirs == {"sub", "sub/deep", "old.gz"}

\* entry.path().extension() of every path of the tree: what follows the
\* last dot of the file name, none for a name that only starts with a dot.
Extension(p) ==
    CASE p = "a.gz"     -> "gz"
      [] p = "sub/b.gz" -> "gz"
      [] p = "sub/deep/c.gz" -> "gz"
      [] p = "old.gz"   -> "gz"
      [] p = "B.GZ"     -> "GZ"
      [] p = "notes.gz.txt" -> "txt"
      [] OTHER          -> ""

\* The directory a path of the tree is in, "" for the root.
Parent(p) ==
    CASE p = "sub/b.gz" -> "sub"
      [] p = "sub/deep" -> "sub"
      [] p = "sub/deep/c.gz" -> "sub/deep"
      [] OTHER          -> ""

\* The directories between the root and p.
RECURSIVE Above(_)
Above(p) == IF Parent(p) = "" THEN {} ELSE {Parent(p)} \cup Above(Parent(p))

\* entry.file_type().is_file()
IsFile(p) == p \in DOMAIN disk

\* A filter that takes the extension in any case.
IsTargetAnyCase(p) == IsFile(p) /\ Extension(p) \in {"gz", "GZ"}

\* The filter of gather_gz_files (main.rs 177-178).
IsTarget(p) == IsFile(p) /\ Extension(p) = "gz"

\* entry.metadata().map(|m| m.len()).unwrap_or(0) (main.rs 180)
FileSize(p) == IF p \in tree.nometa THEN 0 ELSE Len(disk[p])

\* WalkDir::new(root).into_iter().flatten() (main.rs 176): the entries the
\* walk yields as Ok.  What is in a directory that cannot be listed is an
\* Err of the walk, which flatten() drops; so is all of a root that cannot
\* be listed.
Entries ==
    IF tree.root # "ok" THEN {}
    ELSE {p \in DOMAIN disk \cup Dirs : Above(p) \cap tree.unreadable = {}}

\* Every order of the set S as a sequence (WalkDir's order is the directory
\* order of the operating system).
Orders(S) ==
    {s \in [1..Cardinality(S) -> S] : \A i, j \in DOMAIN s : s[i] = s[j] => i = j}

\* The walk is depth first: what is below a directory comes in one piece.
DepthFirst(order) ==
    \A d \in Dirs : \A i, j, k \in DOMAIN order :
        (i < j /\ j < k /\ d \in Above(order[i]) /\ d \in Above(order[k]))
            => d \in Above(order[j])

RECURSIVE SumSizes(_)
SumSizes(files) ==
    IF files = <<>> THEN 0 ELSE files[1][2] + SumSizes(Tail(files))

\* A Result<(u64, u64), SieveError>, or none before the call returned.
NoResult == [kind |-> "none", read |-> 0, removed |-> 0]
Ok(read, removed) == [kind |-> "Ok", read |-> read, removed |-> removed]
Err(kind) == [kind |-> kind, read |-> 0, removed |-> 0]

\* The closure of one element of gz_files before a worker takes it.
Queued ==
    [pc |-> "queued", worker |-> 0, calls |-> 0, reader |-> <<>>, pos |-> 0,
     read_count |-> 0, removed_count |-> 0, out |-> <<>>, temp |-> NoFile,
     temp_dir |-> "", temp_name |-> 0, result |-> NoResult, incs |-> 0]

Tasks == DOMAIN task
PathOf(i) == gz_files[i][1]
SizeOf(i) == gz_files[i][2]

\* The workers of the pool that run a closure now.
Busy == {task[i].worker : i \in {j \in Tasks : task[j].pc \notin {"queued", "finished"}}}

\* ------------------------------------------------------------------ corpus

\* The pattern lists the runs are given.
PatternLists ==
    { <<>>,
      << <<"a">> >>, << <<"A">> >>, << <<"*">> >>, << <<"a", "*">> >>,
      << <<>> >>, << <<CR>> >>,
      << <<"*">>, <<"a">> >>, << <<"A">>, <<"a">> >> }

\* One target whose bytes are a gzip member of any content, a gzip member
\* cut short, or no gzip at all.
SingleFiles ==
    {GzEncode(d) : d \in SeqsUpTo(Byte, MaxLen)}
      \cup {<<HDR, "a", LF, "a">>, <<"a", LF>>}

\* The contents of the targets of the two-file corpus.
CorpusFiles ==
    { GzEncode(<<"a", LF, "*", LF>>), GzEncode(<<"*", LF, BAD>>), <<"a", LF>> }

CorpusPatterns == { <<>>, << <<"a">> >> }

Notes == <<"n", "o", "t", "e", "s">>

\* A tree the walk can read all of.
Readable == [root |-> "ok", unreadable |-> {}, nometa |-> {}]

\* main() is entered with the tree t holding the files d, the patterns p
\* and the thread count n.
InitIn(t, d, p, n) ==
    /\ tree = t
    /\ disk = d
    /\ disk0 = d
    /\ patterns = p
    /\ thread_count = n
    /\ pool = 0
    /\ main_pc = "canonicalize"
    /\ gz_files = <<>>
    /\ total_size = 0
    /\ progress = 0
    /\ total_lines_read = 0
    /\ total_lines_removed = 0
    /\ task = <<>>
    /\ faults = 0
    /\ prev = <<>>

InitWith(d, p, n) == InitIn(Readable, d, p, n)

\* A run over two targets with any thread count, 0 too.
Init ==
    \E a, b \in CorpusFiles, p \in CorpusPatterns, n \in 0..MaxThreads :
        InitWith([x \in {"a.gz", "sub/b.gz", "notes.gz.txt"} |->
                     CASE x = "a.gz" -> a [] x = "sub/b.gz" -> b [] OTHER -> Notes],
                 p, n)

\* A run over a target that can be rewritten and one that cannot.
InitFair ==
    \E b \in {GzEncode(<<"*", LF, BAD>>), <<"a", LF>>}, n \in 1..MaxThreads :
        InitWith([x \in {"a.gz", "sub/b.gz", "notes.gz.txt"} |->
                     CASE x = "a.gz" -> GzEncode(<<"a", LF, "*", LF>>)
                       [] x = "sub/b.gz" -> b
                       [] OTHER -> Notes],
                 << <<"a">> >>, n)

\* A run over one target of any content.
InitRewrite ==
    \E a \in SingleFiles, p \in PatternLists :
        InitWith([x \in {"a.gz", "notes.gz.txt"} |->
                     CASE x = "a.gz" -> a [] OTHER -> Notes],
                 p, 1)

\* The pattern lists of the runs that are repeated.
RerunPatterns == { <<>>, << <<"a">> >>, << <<CR>> >> }

\* A run over one target of any content, which is run again afterwards.
InitRerun ==
    \E a \in SingleFiles, p \in RerunPatterns :
        InitWith([x \in {"a.gz", "notes.gz.txt"} |->
                     CASE x = "a.gz" -> a [] OTHER -> Notes],
                 p, 1)

\* The files of the runs that look at the discovery: targets at three
\* depths, of three sizes, and files that are no targets.
GatherContent(x) ==
    CASE x = "a.gz" -> GzEncode(<<"a", LF, "*", LF>>)
      [] x = "sub/b.gz" -> <<"a", LF>>
      [] x = "sub/deep/c.gz" -> <<"a">>
      [] OTHER -> Notes

\* The trees over the targets T: a root that is missing, or cannot be
\* listed, or a root that can with any of the directories not listable
\* and at most one file whose metadata cannot be read.
GatherTrees(T) ==
    {[root |-> r, unreadable |-> {}, nometa |-> {}] : r \in {"missing", "unreadable"}}
      \cup {[root |-> "ok", unreadable |-> u, nometa |-> m] :
               u \in SUBSET {"sub", "sub/deep"}, m \in {{}} \cup {{p} : p \in T}}

\* A run over any of three targets in a tree of any readability.
InitGather ==
    \E T \in SUBSET {"a.gz", "sub/b.gz", "sub/deep/c.gz"} :
        \E t \in GatherTrees(T) :
            InitIn(t, [x \in T \cup {"notes.gz.txt", "B.GZ", ".gz"} |-> GatherContent(x)],
                   << <<"a">> >>, 1)

\* -------------------------------------------------------------------- main

\* Path::new(&args.root_dir).canonicalize()? (main.rs 93): a root that is
\* not there is an io::Error, which main returns as SieveError::Io; a root
\* that is there resolves, whether it can be listed or not.
Canonicalize ==
    /\ main_pc = "canonicalize"
    /\ main_pc' = IF tree.root = "missing" THEN "io_error" ELSE "gather"
    /\ UNCHANGED <<disk, disk0, patterns, thread_count, pool, tree, gz_files,
                   total_size, progress, total_lines_read, total_lines_removed,
                   task, faults, prev>>

\* gather_gz_files (main.rs 172-187): every regular file with extension gz,
\* with its size, in the order of the walk; and the sum of the sizes.
Gather ==
    /\ main_pc = "gather"
    /\ \E order \in Orders({p \in Entries : IsTarget(p)}) :
          LET files == [i \in DOMAIN order |-> <<order[i], FileSize(order[i])>>]
          IN  /\ DepthFirst(order)
              /\ gz_files' = files
              /\ total_size' = SumSizes(files)
    /\ main_pc' = "pool"
    /\ UNCHANGED <<disk, disk0, patterns, thread_count, pool, tree, progress,
                   total_lines_read, total_lines_removed, task, faults, prev>>

\* The pool takes a thread count of 0 as it is.
PoolSizesLiteral(n) == {n}

\* The sizes of the pool ThreadPoolBuilder::num_threads(n).build() makes
\* (main.rs 122-124): n, and for n = 0 the number rayon chooses itself
\* (RAYON_NUM_THREADS or the number of CPUs).
PoolSizes(n) == IF n = 0 THEN 1..MaxThreads ELSE {n}

\* ThreadPoolBuilder::build() succeeded and pool.install starts the parallel
\* iteration over gz_files (main.rs 122-126).
BuildPool ==
    /\ main_pc = "pool"
    /\ main_pc' = "run"
    /\ \E n \in PoolSizes(thread_count) : pool' = n
    /\ task' = [i \in DOMAIN gz_files |-> Queued]
    /\ UNCHANGED <<disk, disk0, patterns, thread_count, tree, gz_files, total_size,
                   progress, total_lines_read, total_lines_removed, faults, prev>>

\* build() failed (a worker thread could not be spawned): main returns the
\* ThreadPool error through `?` (main.rs 124).
BuildPoolFail ==
    /\ main_pc = "pool"
    /\ faults < MaxFaults
    /\ faults' = faults + 1
    /\ main_pc' = "failed"
    /\ UNCHANGED <<disk, disk0, patterns, thread_count, pool, tree, gz_files,
                   total_size, progress, total_lines_read, total_lines_removed,
                   task, prev>>

\* for_each returned, so every closure ran; the bar is finished and the
\* summary printed (main.rs 138-159).
Finish ==
    /\ main_pc = "run"
    /\ \A i \in Tasks : task[i].pc = "finished"
    /\ main_pc' = "done"
    /\ UNCHANGED <<disk, disk0, patterns, thread_count, pool, tree, gz_files,
                   total_size, progress, total_lines_read, total_lines_removed,
                   task, faults, prev>>

\* ------------------------------------------------- remove_lines_with_patterns

\* What a step of closure i leaves alone besides task.
Frame ==
    UNCHANGED <<disk0, patterns, thread_count, pool, tree, main_pc, gz_files,
                total_size, prev>>
Quiet == UNCHANGED <<disk, progress, total_lines_read, total_lines_removed, faults>>
Faulty ==
    /\ faults < MaxFaults
    /\ faults' = faults + 1
    /\ UNCHANGED <<disk, progress, total_lines_read, total_lines_removed>>

Running(i, pc) == main_pc = "run" /\ i \in Tasks /\ task[i].pc = pc

\* The call returns r and the scratch file stays where it is.
ReturnLeavesTemp(t, r) ==
    [t EXCEPT !.pc = "match", !.result = r, !.reader = <<>>]

\* The call returns r: temp_file is dropped, which removes the scratch file,
\* and so is the reader.
Return(t, r) ==
    [t EXCEPT !.pc = "match", !.result = r, !.temp = NoFile, !.temp_dir = "",
              !.temp_name = 0, !.reader = <<>>]

\* A free worker of the pool takes element i and calls
\* remove_lines_with_patterns (main.rs 126-127).
StartTask(i) ==
    /\ Running(i, "queued")
    /\ \E w \in 1..pool :
          /\ w \notin Busy
          /\ \A v \in 1..(w - 1) : v \in Busy
          /\ task' = [task EXCEPT ![i].pc = "new_temp", ![i].worker = w,
                                  ![i].calls = @ + 1]
    /\ Frame /\ Quiet

\* std::env::temp_dir(), the directory NamedTempFile::new() creates its
\* file in; it is not a directory of the tree.
TempDir == "tmp"

\* The names of the scratch files that exist.
LiveNames == {task[j].temp_name : j \in {k \in Tasks : task[k].temp.exists}}

\* The name NamedTempFile::new() gives its file: a random name, created
\* only if no file has it.  Names stand for nothing, so the first free one
\* is taken.
NewName ==
    CHOOSE n \in 1..(Cardinality(LiveNames) + 1) :
        n \notin LiveNames /\ \A m \in 1..(n - 1) : m \in LiveNames

\* NamedTempFile::new() (main.rs 194).
NewTemp(i) ==
    /\ Running(i, "new_temp")
    /\ task' = [task EXCEPT ![i].pc = "open", ![i].temp = File(<<>>),
                            ![i].temp_dir = TempDir, ![i].temp_name = NewName]
    /\ Frame /\ Quiet

NewTempFail(i) ==
    /\ Running(i, "new_temp")
    /\ task' = [task EXCEPT ![i] = Return(@, Err("Io"))]
    /\ Frame /\ Faulty

\* File::open(file_path), then the decoder and reader over it (197-203).
\* reader holds the items lines() has still to yield.
OpenInput(i) ==
    /\ Running(i, "open")
    /\ task' = [task EXCEPT ![i].pc = "create",
                            ![i].reader = ReaderLines(disk[PathOf(i)])]
    /\ Frame /\ Quiet

OpenInputFail(i) ==
    /\ Running(i, "open")
    /\ task' = [task EXCEPT ![i] = Return(@, Err("FileOpen"))]
    /\ Frame /\ Faulty

\* The output created over the file being rewritten.
OutputPathTarget(i) == "target"

\* The file File::create opens for the encoder's output (main.rs 206).
OutputPath(i) == "temp"

\* File::create(temp_file.path()), then the encoder and writer (206-208).
CreateOutput(i) ==
    /\ Running(i, "create")
    /\ task' = [task EXCEPT ![i].pc = "loop",
                            ![i].temp = IF OutputPath(i) = "temp" THEN File(<<>>) ELSE @]
    /\ disk' = IF OutputPath(i) = "temp" THEN disk
               ELSE [disk EXCEPT ![PathOf(i)] = <<>>]
    /\ UNCHANGED <<progress, total_lines_read, total_lines_removed, faults>>
    /\ Frame

CreateOutputFail(i) ==
    /\ Running(i, "create")
    /\ task' = [task EXCEPT ![i] = Return(@, Err("Io"))]
    /\ Frame /\ Faulty

\* Whether the loop writes the line (main.rs 216-221).
Keeps(pats, line) == ~AnyPattern(pats, line)

\* Ok(line), and no pattern is in it: the line and "\n" go to the writer
\* (main.rs 214-222).
LineKept(i) ==
    /\ Running(i, "loop")
    /\ task[i].reader # <<>>
    /\ LET item == Head(task[i].reader)
       IN  /\ item.ok
           /\ Keeps(patterns, item.line)
           /\ task' = [task EXCEPT ![i].reader = Tail(@),
                                   ![i].pos = @ + 1,
                                   ![i].read_count = @ + 1,
                                   ![i].out = @ \o item.line \o <<LF>>]
    /\ Frame /\ Quiet

\* Ok(line), no pattern is in it, and write_all fails (main.rs 219-220).
LineWriteFail(i) ==
    /\ Running(i, "loop")
    /\ task[i].reader # <<>>
    /\ LET item == Head(task[i].reader)
       IN  /\ item.ok
           /\ Keeps(patterns, item.line)
           /\ task' = [task EXCEPT ![i] =
                         Return([@ EXCEPT !.pos = @ + 1, !.read_count = @ + 1],
                                Err("Io"))]
    /\ Frame /\ Faulty

\* Ok(line), and a pattern is in it (main.rs 216-217).
LineRemoved(i) ==
    /\ Running(i, "loop")
    /\ task[i].reader # <<>>
    /\ LET item == Head(task[i].reader)
       IN  /\ item.ok
           /\ ~Keeps(patterns, item.line)
           /\ task' = [task EXCEPT ![i].reader = Tail(@),
                                   ![i].pos = @ + 1,
                                   ![i].read_count = @ + 1,
                                   ![i].removed_count = @ + 1]
    /\ Frame /\ Quiet

\* Err(e) ends the loop as if the input had ended.
LineErrBreaks(i) ==
    /\ Running(i, "loop")
    /\ task[i].reader # <<>>
    /\ ~Head(task[i].reader).ok
    /\ task' = [task EXCEPT ![i].pc = "flush", ![i].pos = @ + 1, ![i].reader = Tail(@)]
    /\ Frame /\ Quiet

\* Err(e): the call returns LineRead (main.rs 224-230).
LineErr(i) ==
    /\ Running(i, "loop")
    /\ task[i].reader # <<>>
    /\ ~Head(task[i].reader).ok
    /\ task' = [task EXCEPT ![i] = Return([@ EXCEPT !.pos = @ + 1], Err("LineRead"))]
    /\ Frame /\ Quiet

\* lines() is exhausted.
EndOfInput(i) ==
    /\ Running(i, "loop")
    /\ task[i].reader = <<>>
    /\ task' = [task EXCEPT ![i].pc = "flush"]
    /\ Frame /\ Quiet

\* writer.flush() (main.rs 233): the header and the data written so far are
\* in the scratch file; the encoder is not finished.
Flush(i) ==
    /\ Running(i, "flush")
    /\ task' = [task EXCEPT ![i].pc = "drop",
                            ![i].temp = File(<<HDR>> \o task[i].out)]
    /\ Frame /\ Quiet

FlushFail(i) ==
    /\ Running(i, "flush")
    /\ task' = [task EXCEPT ![i] = Return(@, Err("Io"))]
    /\ Frame /\ Faulty

\* drop(writer) (main.rs 234): GzEncoder's Drop finishes the stream, and the
\* trailer reaches the scratch file.
DropWriter(i) ==
    /\ Running(i, "drop")
    /\ task' = [task EXCEPT ![i].pc = "copy",
                            ![i].temp = File(@.bytes \o <<TRL>>)]
    /\ Frame /\ Quiet

\* drop(writer), and the write of the trailer fails: Drop has no way to
\* report it, and the call goes on.
DropWriterFail(i) ==
    /\ Running(i, "drop")
    /\ task' = [task EXCEPT ![i].pc = "copy"]
    /\ Frame /\ Faulty

\* std::fs::copy (main.rs 244) opens file_path for writing, truncating it.
CopyOpen(i) ==
    /\ Running(i, "copy")
    /\ task' = [task EXCEPT ![i].pc = "copy_data"]
    /\ disk' = [disk EXCEPT ![PathOf(i)] = <<>>]
    /\ UNCHANGED <<progress, total_lines_read, total_lines_removed, faults>>
    /\ Frame

\* The open fails (a read-only target): Processing (main.rs 245).
CopyOpenFail(i) ==
    /\ Running(i, "copy")
    /\ task' = [task EXCEPT ![i] = Return(@, Err("Processing"))]
    /\ Frame /\ Faulty

\* copy writes the bytes of the scratch file, and the call returns the
\* counts (main.rs 244-247).
CopyData(i) ==
    /\ Running(i, "copy_data")
    /\ disk' = [disk EXCEPT ![PathOf(i)] = task[i].temp.bytes]
    /\ task' = [task EXCEPT ![i] =
                  Return(@, Ok(task[i].read_count, task[i].removed_count))]
    /\ UNCHANGED <<progress, total_lines_read, total_lines_removed, faults>>
    /\ Frame

\* A write of copy fails after k bytes: Processing (main.rs 245).
CopyDataFail(i) ==
    /\ Running(i, "copy_data")
    /\ faults < MaxFaults
    /\ faults' = faults + 1
    /\ \E k \in 0..(Len(task[i].temp.bytes) - 1) :
          disk' = [disk EXCEPT ![PathOf(i)] = SubSeq(task[i].temp.bytes, 1, k)]
    /\ task' = [task EXCEPT ![i] = Return(@, Err("Processing"))]
    /\ UNCHANGED <<progress, total_lines_read, total_lines_removed>>
    /\ Frame

\* ------------------------------------------------------- the closure's rest

\* Ok((read, removed)): total_lines_read.fetch_add(read) (main.rs 128-129).
AddRead(i) ==
    /\ Running(i, "match")
    /\ task[i].result.kind = "Ok"
    /\ total_lines_read' = total_lines_read + task[i].result.read
    /\ task' = [task EXCEPT ![i].pc = "add_removed"]
    /\ UNCHANGED <<disk, progress, total_lines_removed, faults>>
    /\ Frame

\* total_lines_removed.fetch_add(removed) (main.rs 130).
AddRemoved(i) ==
    /\ Running(i, "add_removed")
    /\ total_lines_removed' = total_lines_removed + task[i].result.removed
    /\ task' = [task EXCEPT ![i].pc = "inc"]
    /\ UNCHANGED <<disk, progress, total_lines_read, faults>>
    /\ Frame

\* Err(e), and the lines read before the failure are added to the total.
WarnCountsPartial(i) ==
    /\ Running(i, "match")
    /\ task[i].result.kind # "Ok"
    /\ total_lines_read' = total_lines_read + task[i].read_count
    /\ task' = [task EXCEPT ![i].pc = "inc"]
    /\ UNCHANGED <<disk, progress, total_lines_removed, faults>>
    /\ Frame

\* Err(e) ends the run.
WarnAborts(i) ==
    /\ Running(i, "match")
    /\ task[i].result.kind # "Ok"
    /\ main_pc' = "failed"
    /\ task' = [task EXCEPT ![i].pc = "inc"]
    /\ UNCHANGED <<disk0, patterns, thread_count, pool, tree, gz_files,
                   total_size, prev>>
    /\ Quiet

\* Err(e): warn! (main.rs 132-134).
Warn(i) ==
    /\ Running(i, "match")
    /\ task[i].result.kind # "Ok"
    /\ task' = [task EXCEPT ![i].pc = "inc"]
    /\ Frame /\ Quiet

\* The size of the file as it is when the closure ends.
IncAmountCurrent(i) == Len(disk[PathOf(i)])

\* The bytes progress.inc is given (main.rs 136).
IncAmount(i) == SizeOf(i)

\* progress.inc(*file_size) (main.rs 136); the closure ends.
ProgressInc(i) ==
    /\ Running(i, "inc")
    /\ progress' = progress + IncAmount(i)
    /\ task' = [task EXCEPT ![i].pc = "finished", ![i].incs = @ + 1]
    /\ UNCHANGED <<disk, total_lines_read, total_lines_removed, faults>>
    /\ Frame

\* The outcome of the invocation that ended: what the call returned for
\* every path, and the tree it left.
Outcome ==
    [results |-> [p \in {PathOf(i) : i \in Tasks} |->
                     task[CHOOSE i \in Tasks : PathOf(i) = p].result],
     disk |-> disk]

\* The program ended and is invoked again with the same arguments: main()
\* starts anew on the tree as the ended invocation left it (main.rs 71-117).
Rerun ==
    /\ main_pc = "done"
    /\ Len(prev) + 1 < MaxRuns
    /\ prev' = Append(prev, Outcome)
    /\ disk0' = disk
    /\ main_pc' = "canonicalize"
    /\ gz_files' = <<>>
    /\ total_size' = 0
    /\ progress' = 0
    /\ total_lines_read' = 0
    /\ total_lines_removed' = 0
    /\ task' = <<>>
    /\ pool' = 0
    /\ UNCHANGED <<disk, patterns, thread_count, tree, faults>>

\* ------------------------------------------------------------ specification

Next ==
    \/ Canonicalize
    \/ Gather
    \/ BuildPool
    \/ BuildPoolFail
    \/ Finish
    \/ \E i \in Tasks : StartTask(i)
    \/ \E i \in Tasks : NewTemp(i)
    \/ \E i \in Tasks : NewTempFail(i)
    \/ \E i \in Tasks : OpenInput(i)
    \/ \E i \in Tasks : OpenInputFail(i)
    \/ \E i \in Tasks : CreateOutput(i)
    \/ \E i \in Tasks : CreateOutputFail(i)
    \/ \E i \in Tasks : LineKept(i)
    \/ \E i \in Tasks : LineWriteFail(i)
    \/ \E i \in Tasks : LineRemoved(i)
    \/ \E i \in Tasks : LineErr(i)
    \/ \E i \in Tasks : EndOfInput(i)
    \/ \E i \in Tasks : Flush(i)
    \/ \E i \in Tasks : FlushFail(i)
    \/ \E i \in Tasks : DropWriter(i)
    \/ \E i \in Tasks : DropWriterFail(i)
    \/ \E i \in Tasks : CopyOpen(i)
    \/ \E i \in Tasks : CopyOpenFail(i)
    \/ \E i \in Tasks : CopyData(i)
    \/ \E i \in Tasks : CopyDataFail(i)
    \/ \E i \in Tasks : AddRead(i)
    \/ \E i \in Tasks : AddRemoved(i)
    \/ \E i \in Tasks : Warn(i)
    \/ \E i \in Tasks : ProgressInc(i)

Spec == Init /\ [][Next]_vars

SpecRewrite == InitRewrite /\ [][Next]_vars

\* The discovery over trees of any shape and readability.
SpecGather == InitGather /\ [][Next]_vars

\* The program invoked more than once on the same tree.
NextRerun == Next \/ Rerun

SpecRerun == InitRerun /\ [][NextRerun]_vars

\* Every thread that can take a step takes one.
FairSpec == InitFair /\ [][Next]_vars /\ WF_vars(Next)

\* ------------------------------------------------- what the claims speak of

\* A byte sequence as its lines: split at every LF, the part after the last
\* LF being a line when it is not empty.
RECURSIVE SplitLF(_)
SplitLF(data) ==
    IF data = <<>> THEN <<>>
    ELSE LET k == IndexFrom(data, LF, 1)
         IN  IF k = 0 THEN <<data>>
             ELSE <<SubSeq(data, 1, k - 1)>> \o SplitLF(SubSeq(data, k + 1, Len(data)))

\* pat is a substring of line.
IsSubstring(pat, line) ==
    \E j \in 0..Len(line) :
        /\ j + Len(pat) <= Len(line)
        /\ \A k \in 1..Len(pat) : line[j + k] = pat[k]

\* line contains at least one pattern of pats.
HasPattern(line, pats) == \E k \in DOMAIN pats : IsSubstring(pats[k], line)

\* The lines of L with no pattern of pats, in their order.
Unmatched(L, pats) == SelectSeq(L, LAMBDA l : ~HasPattern(l, pats))

Reverse(s) == [k \in DOMAIN s |-> s[Len(s) + 1 - k]]

RECURSIVE SumTo(_, _)
SumTo(F(_), n) == IF n = 0 THEN 0 ELSE F(n) + SumTo(F, n - 1)

Returned(i) == task[i].result.kind # "none"
Succeeded(i) == task[i].result.kind = "Ok"
Failed(i) == Returned(i) /\ ~Succeeded(i)

\* The target of closure i as the run found it, and as it is now.
Before(i) == disk0[PathOf(i)]
Now(i) == disk[PathOf(i)]

\* ------------------------------------------------------------------ claims

\* C1: when remove_lines_with_patterns succeeds on a file that decompresses
\* to the lines L (split on newline), the file then holds exactly the lines
\* of L that contain no pattern, in their order: it is a gzip stream that
\* decompresses to those lines.
C1_FileHoldsUnmatchedLines ==
    \A i \in Tasks :
        Succeeded(i) =>
            /\ GzDecode(Now(i)).clean
            /\ SplitLF(GzDecode(Now(i)).data)
                 = Unmatched(SplitLF(GzDecode(Before(i)).data), patterns)

\* C2: a successful call returns (read, removed) with read the number of
\* lines of the input, removed the number of input lines that contain a
\* pattern, read = removed + the number of lines of the rewritten file, and
\* removed <= read.
C2_CountsOfSuccess ==
    \A i \in Tasks :
        Succeeded(i) =>
            LET L == SplitLF(GzDecode(Before(i)).data)
                r == task[i].result
            IN  /\ r.read = Len(L)
                /\ r.removed = Cardinality({k \in DOMAIN L : HasPattern(L[k], patterns)})
                /\ GzDecode(Now(i)).clean
                /\ r.read = r.removed + Len(SplitLF(GzDecode(Now(i)).data))
                /\ r.removed <= r.read

\* C3: the filter drops a line iff it contains a pattern as a literal,
\* case-sensitive substring; no line is dropped with no pattern; the order
\* of the patterns does not change which lines are dropped.  Stated of the
\* lines the loop has decided so far.
C3_FilterIsLiteralSubstring ==
    \A i \in Tasks :
        LET its  == ReaderLines(Before(i))
            seen == {k \in 1..task[i].pos : its[k].ok}
        IN  /\ \A k \in seen :
                  /\ Keeps(patterns, its[k].line) <=> ~HasPattern(its[k].line, patterns)
                  /\ AnyPattern(Reverse(patterns), its[k].line)
                       <=> AnyPattern(patterns, its[k].line)
            /\ task[i].removed_count
                 = Cardinality({k \in seen : HasPattern(its[k].line, patterns)})
            /\ patterns = <<>> => task[i].removed_count = 0

\* "A" does not match the line "a", "a" does, and the line "*" is kept.
C3_Witness ==
    \E i \in Tasks :
        /\ patterns = << <<"A">>, <<"a">> >>
        /\ GzDecode(Before(i)).data = <<"a", LF, "*">>
        /\ task[i].removed_count = 1
        /\ task[i].read_count = 2

\* C4: whenever remove_lines_with_patterns returns an error, the original
\* file's bytes are what they were before the call.
C4_ErrorLeavesOriginal ==
    \A i \in Tasks : Failed(i) => Now(i) = Before(i)

\* The bytes of a finished rewrite of a file: the gzip stream of its lines
\* without a pattern, each followed by LF.
RECURSIVE JoinLines(_)
JoinLines(L) == IF L = <<>> THEN <<>> ELSE Head(L) \o <<LF>> \o JoinLines(Tail(L))

Rewritten(bytes, pats) ==
    LET its == ReaderLines(bytes)
        L   == [k \in DOMAIN its |-> its[k].line]
    IN  GzEncode(JoinLines(Unmatched(L, pats)))

\* C5: at every point of a rewrite, the original path holds either the
\* complete original content or the complete rewritten content.
C5_OriginalOrRewritten ==
    \A i \in Tasks : Now(i) = Before(i) \/ Now(i) = Rewritten(Before(i), patterns)

\* C6: while a rewrite has not begun its replace step, and after it failed
\* before that step (open failure, decode error, write or flush error), the
\* original file's bytes are unchanged.
C6_FailureBeforeReplaceKeepsOriginal ==
    \A i \in Tasks :
        (\/ task[i].pc \in {"new_temp", "open", "create", "loop", "flush", "drop", "copy"}
         \/ task[i].result.kind \in {"Io", "FileOpen", "LineRead"})
            => Now(i) = Before(i)

\* A write to the scratch file failed after a line was read.
C6_Witness ==
    \E i \in Tasks :
        /\ task[i].result.kind = "Io"
        /\ task[i].read_count > 0
        /\ Before(i) # <<>>

\* What a rewrite of a file returns when no I/O fails: the counts, or
\* nothing when a line cannot be read.
FileCounts(bytes, pats) ==
    LET its == ReaderLines(bytes)
    IN  IF \A k \in DOMAIN its : its[k].ok
        THEN [read |-> Len(its),
              removed |-> Cardinality({k \in DOMAIN its : HasPattern(its[k].line, pats)})]
        ELSE [read |-> 0, removed |-> 0]

RECURSIVE SumOver(_, _)
SumOver(F(_), S) ==
    IF S = {} THEN 0
    ELSE LET x == CHOOSE y \in S : TRUE IN F(x) + SumOver(F, S \ {x})

Targets == {p \in DOMAIN disk0 : Extension(p) = "gz"}

\* C7: after all workers finished, the totals are the sums of the counts of
\* the files whose rewrite succeeded, a failed file adding nothing; and
\* they are a function of the files and the patterns alone, whatever the
\* number of workers and the order of completion.
C7_TotalsAreSumOfSuccesses ==
    main_pc = "done" =>
        /\ total_lines_read
             = SumTo(LAMBDA i : IF Succeeded(i) THEN task[i].result.read ELSE 0,
                     Len(gz_files))
        /\ total_lines_removed
             = SumTo(LAMBDA i : IF Succeeded(i) THEN task[i].result.removed ELSE 0,
                     Len(gz_files))
        /\ faults = 0 =>
             /\ total_lines_read
                  = SumOver(LAMBDA p : FileCounts(disk0[p], patterns).read, Targets)
             /\ total_lines_removed
                  = SumOver(LAMBDA p : FileCounts(disk0[p], patterns).removed, Targets)

\* Two workers; one file succeeded, the other failed after a line was read.
C7_Witness ==
    /\ main_pc = "done"
    /\ thread_count = 2
    /\ \E i, j \in Tasks :
          /\ Succeeded(i) /\ task[i].result.read > 0
          /\ Failed(j) /\ task[j].read_count > 0

\* C8: every discovered file is handed to remove_lines_with_patterns once
\* and yields one outcome, which never changes; and once the pool runs, the
\* run finishes with an outcome for every file, failed or not.
C8_EveryFileOnceAndRunFinishes ==
    /\ [](\A i \in Tasks :
            /\ task[i].calls <= 1
            /\ Returned(i) => task[i].calls = 1)
    /\ [][\A i \in Tasks : Returned(i) => task'[i].result = task[i].result]_vars
    /\ (main_pc = "run") ~>
          (/\ main_pc = "done"
           /\ DOMAIN task = DOMAIN gz_files
           /\ \A i \in Tasks : task[i].calls = 1 /\ Returned(i))

\* The run is done; one file failed and the other succeeded.
C8_Witness ==
    /\ main_pc = "done"
    /\ \E i, j \in Tasks : Failed(i) /\ Succeeded(j)

\* C9: the progress counter is advanced once per file, when its closure
\* ends, by the size found at discovery; so it is the sum of those sizes
\* over the ended closures, never decreases, never exceeds the total, and
\* is the total once the run is done.
C9_ProgressBySizeAtDiscovery ==
    /\ [](/\ \A i \in Tasks :
               task[i].incs = IF task[i].pc = "finished" THEN 1 ELSE 0
          /\ progress
               = SumTo(LAMBDA i : IF task[i].pc = "finished" THEN Len(Before(i)) ELSE 0,
                       Len(task))
          /\ progress <= total_size
          /\ main_pc = "done" =>
               /\ progress = total_size
               /\ progress = SumOver(LAMBDA p : Len(disk0[p]), Targets))
    /\ [][progress' >= progress]_vars

\* The run is done, a rewrite changed the size of its file, and a rewrite
\* failed.
C9_Witness ==
    /\ main_pc = "done"
    /\ \E i, j \in Tasks :
          /\ Succeeded(i) /\ Len(Now(i)) # Len(Before(i))
          /\ Failed(j)

\* C10: the rewrite of a file that is not a valid gzip stream never
\* succeeds, and the file's bytes stay what they were.
C10_InvalidGzipFails ==
    \A i \in Tasks :
        ~GzDecode(Before(i)).clean => ~Succeeded(i) /\ Now(i) = Before(i)

\* The rewrite of a file without gzip header returned LineRead.
C10_Witness ==
    \E i \in Tasks :
        /\ Before(i) = <<"a", LF>>
        /\ task[i].result.kind = "LineRead"

\* The content has a byte that is not text, or no LF at all.
HasBinary(data) == \E k \in DOMAIN data : data[k] = BAD
NoSeparator(data) == \A k \in DOMAIN data : data[k] # LF

\* C11 as it is written: the rewrite of a valid gzip file whose content is
\* not empty and has no line separator never succeeds.
C11_NoSeparatorNeverSucceeds ==
    \A i \in Tasks :
        LET d == GzDecode(Before(i))
        IN  (d.clean /\ d.data # <<>> /\ NoSeparator(d.data)) => ~Succeeded(i)

\* C11, amended: the rewrite of a valid gzip file whose content is not
\* valid UTF-8 (binary data) never succeeds, and when no I/O fails it
\* returns the decode error LineRead; a content without line separator
\* that is valid UTF-8 is one line, and a success on it reports read = 1.
C11_BinaryContentFails ==
    \A i \in Tasks :
        LET d == GzDecode(Before(i))
        IN  /\ (d.clean /\ HasBinary(d.data)) =>
                  /\ ~Succeeded(i)
                  /\ (Returned(i) /\ faults = 0) => task[i].result.kind = "LineRead"
            /\ (d.clean /\ d.data # <<>> /\ NoSeparator(d.data)
                   /\ ~HasBinary(d.data) /\ Succeeded(i))
                  => task[i].result.read = 1

\* Binary content without a separator returned LineRead.
C11_Witness ==
    \E i \in Tasks :
        /\ Before(i) = GzEncode(<<BAD, "a", BAD>>)
        /\ task[i].result.kind = "LineRead"

\* C12: the rewrite of a valid gzip file with empty content, or whose every
\* line contains a pattern, succeeds when no I/O fails, with read the
\* number of lines and removed = read (0 and 0 for empty content); and the
\* file is then a valid gzip stream that decompresses to zero lines.
C12_AllRemovedLeavesEmptyGzip ==
    \A i \in Tasks :
        LET d == GzDecode(Before(i))
            L == SplitLF(d.data)
        IN  (d.clean /\ ~HasBinary(d.data)
               /\ \A k \in DOMAIN L : HasPattern(L[k], patterns)) =>
                /\ (Returned(i) /\ faults = 0) => Succeeded(i)
                /\ Succeeded(i) =>
                      /\ task[i].result.read = Len(L)
                      /\ task[i].result.removed = task[i].result.read
                      /\ GzDecode(Now(i)).clean
                      /\ GzDecode(Now(i)).data = <<>>

\* The outcome of the invocation before this one.
First == prev[Len(prev)]

\* C13: when the rewrite of a file succeeded and the rewrite is run again
\* on the same file with the same patterns and succeeds, the second run
\* removes no line, reads the lines the first run kept (read - removed of
\* the first run), and leaves the file a gzip stream with the lines the
\* first run left.
C13_SecondRunChangesNothing ==
    \A i \in Tasks :
        (/\ Len(prev) > 0
         /\ Succeeded(i)
         /\ First.results[PathOf(i)].kind = "Ok") =>
            LET f == First.results[PathOf(i)]
            IN  /\ task[i].result.removed = 0
                /\ task[i].result.read + f.removed = f.read
                /\ GzDecode(Now(i)).clean
                /\ SplitLF(GzDecode(Now(i)).data)
                     = SplitLF(GzDecode(First.disk[PathOf(i)]).data)

\* C14: with an empty pattern list a successful rewrite returns removed = 0
\* and leaves the decompressed content as it was, byte for byte: the same
\* lines with the same terminators.
C14_NoPatternsKeepsContent ==
    \A i \in Tasks :
        (patterns = <<>> /\ Succeeded(i)) =>
            /\ task[i].result.removed = 0
            /\ GzDecode(Now(i)).clean
            /\ GzDecode(Now(i)).data = GzDecode(Before(i)).data

\* C15 as it is written: with a thread count of 0 the run does not get to
\* its file tasks.
C15_ZeroThreadsAborts ==
    thread_count = 0 => (main_pc \notin {"run", "done"} /\ task = <<>>)

\* C15, amended: a thread count of 0 is no error: the pool is built with
\* a number of workers rayon chooses, at least one, and the run goes on.
\* The run aborts with the ThreadPool error only when the pool cannot be
\* built, and then before any file task starts: no file is changed and
\* nothing is counted.
C15_AbortOnlyWhenPoolCannotBeBuilt ==
    /\ main_pc = "failed" =>
          /\ faults > 0
          /\ task = <<>>
          /\ disk = disk0
          /\ total_lines_read = 0 /\ total_lines_removed = 0 /\ progress = 0
    /\ main_pc \in {"run", "done"} =>
          /\ pool >= 1
          /\ thread_count > 0 => pool = thread_count
          /\ \A i \in Tasks : task[i].worker <= pool

\* A run with thread count 0 is done and rewrote a file.
C15_Witness ==
    /\ thread_count = 0
    /\ main_pc = "done"
    /\ \E i \in Tasks : Succeeded(i) /\ Now(i) # Before(i)

\* The regular files with extension gz under the root.
GzFiles == {p \in DOMAIN disk0 : Extension(p) = "gz"}

\* gather_gz_files has returned.
Gathered == main_pc \in {"pool", "run", "done", "failed"}

\* The paths of the returned list are distinct, and the total is the sum of
\* its sizes.
ListedOnce ==
    /\ \A i, j \in DOMAIN gz_files : gz_files[i][1] = gz_files[j][1] => i = j
    /\ total_size = SumTo(LAMBDA i : gz_files[i][2], Len(gz_files))

\* C16 as it is written: the list gather_gz_files returns has every regular
\* file with extension gz at any depth, once, with its size, and nothing
\* else; the total is the sum of the sizes of the list.
C16_EveryGzFileListed ==
    Gathered =>
        /\ {gz_files[i][1] : i \in DOMAIN gz_files} = GzFiles
        /\ \A i \in DOMAIN gz_files : gz_files[i][2] = Len(disk0[gz_files[i][1]])
        /\ ListedOnce

\* No directory between the root and p refuses to be listed, nor the root.
Reached(p) == tree.root = "ok" /\ \A d \in Above(p) : d \notin tree.unreadable

\* C16, amended: the list has every regular file with extension exactly gz
\* that the walk reaches, at any depth, once, and nothing else; what is in
\* a directory that cannot be listed is skipped without error; a file is
\* paired with its size, or with 0 when its metadata cannot be read; the
\* total is the sum of the sizes of the list, and with no file reached the
\* list is empty and the total 0.
C16_EveryReachedGzFileListed ==
    Gathered =>
        /\ {gz_files[i][1] : i \in DOMAIN gz_files} = {p \in GzFiles : Reached(p)}
        /\ \A i \in DOMAIN gz_files :
              gz_files[i][2] = IF gz_files[i][1] \in tree.nometa THEN 0
                               ELSE Len(disk0[gz_files[i][1]])
        /\ ListedOnce
        /\ {p \in GzFiles : Reached(p)} = {} => (gz_files = <<>> /\ total_size = 0)

\* Three targets, the deepest in a directory that cannot be listed: the
\* other two are returned, with their sizes.
C16_Witness ==
    /\ Gathered
    /\ GzFiles = {"a.gz", "sub/b.gz", "sub/deep/c.gz"}
    /\ tree.unreadable = {"sub/deep"}
    /\ Len(gz_files) = 2
    /\ total_size = 8

\* C17 as it is written: with a root that is not there or cannot be read,
\* main fails before gather_gz_files returns a list.
C17_BadRootIsAnError ==
    tree.root # "ok" => main_pc \in {"canonicalize", "io_error"}

\* C18: the replace step of a rewrite runs only with a scratch file whose
\* gzip stream was flushed and finished (header, data and trailer are in
\* it); when the flush or the finish fails the rewrite returns an error
\* and does not replace.
C18_ReplaceOnlyAfterFinalize ==
    \A i \in Tasks :
        task[i].pc = "copy_data" =>
            /\ task[i].temp.exists
            /\ task[i].temp.bytes = GzEncode(task[i].out)

\* C19: once the call has returned, on whatever path (success, or any of
\* its errors), its scratch file does not exist, and when the run is done
\* none is left; a scratch file exists only inside the call that made it,
\* and no two calls have the same scratch file.
C19_ScratchRemovedAndOwnedByOneTask ==
    /\ \A i \in Tasks :
          /\ Returned(i) => ~task[i].temp.exists
          /\ task[i].temp.exists =>
                /\ task[i].pc \in {"open", "create", "loop", "flush", "drop",
                                    "copy", "copy_data"}
                /\ task[i].temp_name > 0
    /\ \A i, j \in Tasks :
          (i # j /\ task[i].temp.exists /\ task[j].temp.exists)
              => <<task[i].temp_dir, task[i].temp_name>>
                   # <<task[j].temp_dir, task[j].temp_name>>
    /\ main_pc = "done" => LiveNames = {}

\* A call returned an error of the replace step and its scratch file is
\* gone, while the call of another worker has its own, the second one made.
C19_Witness ==
    \E i, j \in Tasks :
        /\ task[i].result.kind = "Processing"
        /\ ~task[i].temp.exists
        /\ task[j].temp.exists /\ task[j].temp_name = 2

\* C20: the scratch file of a rewrite is in the directory of the file
\* being rewritten.
C20_ScratchBesideTarget ==
    \A i \in Tasks :
        task[i].temp.exists => task[i].temp_dir = Parent(PathOf(i))

\* C21: a pattern list with the empty string is run like any other, every
\* line contains that pattern, and so a successful rewrite returns
\* removed = read and leaves the file a gzip stream of empty content.
C21_EmptyPatternRemovesEveryLine ==
    \A i \in Tasks :
        ((\E k \in DOMAIN patterns : patterns[k] = <<>>) /\ Succeeded(i)) =>
            /\ task[i].result.removed = task[i].result.read
            /\ GzDecode(Now(i)).clean
            /\ GzDecode(Now(i)).data = <<>>

====
